---- MODULE Spec2Model ----
(***************************************************************************)
(* Model of the game-balance engine of shared/gameLogic.ts: the three      *)
(* effect appliers (allocation, synergy, disaster), the clamp and the      *)
(* round orchestrator calculateRoundEffects.                               *)
(*                                                                         *)
(* Numbers.  The engine computes in IEEE doubles; every factor the code    *)
(* and its presets use (0.4, 0.5, 0.6, 0.75, 1, 1.25) is a multiple of     *)
(* 1/20, so a metric value v is held here as the integer v * Unit, a       *)
(* multiplier or penalty scale f as the integer f * Unit, and a product    *)
(* (points * factor) is then already in metric units.  Per-token effects,  *)
(* bonus amounts, penalties and thresholds are whole points, as in the     *)
(* configuration.  Rounding error of the doubles is not modelled.          *)
(***************************************************************************)
EXTENDS Integers, Sequences, FiniteSets, TLC

VARIABLES
    metricsBefore,   \* GameMetrics handed to the engine (baseMetrics / metricsBefore)
    allocations,     \* Record<string, number>: card id -> tokens, keys may be missing
    currentRound,    \* round number handed to the engine
    tokenMechanics,  \* config.tokenMechanics
    penaltyScale,    \* penaltyScale argument, in units of 1/Unit
    synergies,       \* SynergyConfig[]
    disasters,       \* config.disasters: DisasterConfig[]
    feedbackThresholds, \* config.feedbackThresholds
    unlockConditions,   \* config.unlockConditions
    gameState,       \* GameState of the GameProvider (GameContext.tsx)
    selectedDifficulty, \* the difficulty state of the GameProvider
    result           \* what the last engine call returned, or the last operation of the
                     \* game session; [fn |-> "none"] before any call

vars == <<metricsBefore, allocations, currentRound, tokenMechanics, penaltyScale,
          synergies, disasters, feedbackThresholds, unlockConditions,
          gameState, selectedDifficulty, result>>

\* the state of the game session
session == <<gameState, selectedDifficulty>>

inputs == <<metricsBefore, allocations, currentRound, tokenMechanics, penaltyScale,
            synergies, disasters, feedbackThresholds, unlockConditions>>

\* the arguments that the engine only reads: no statement of gameLogic.ts assigns
\* to them or to a field of them
argumentsReadOnly == <<allocations, currentRound, tokenMechanics, penaltyScale,
                       synergies, disasters, feedbackThresholds, unlockConditions>>

-----------------------------------------------------------------------------
(* Bounds of the model *)

\* largest token count an allocation entry holds in the enumerated inputs
MaxTokens == 3

\* longest disaster list enumerated for applyDisasterPenalties
MaxDisasters == 2

\* longest synergy list enumerated for applySynergyBonuses
MaxSynergies == 2

-----------------------------------------------------------------------------
(* Numbers and the metric record *)

Unit == 4 * 5

Max(a, b) == IF a >= b THEN a ELSE b

Min(a, b) == IF a <= b THEN a ELSE b

Dims == {"visibility_insight", "efficiency_throughput", "sustainability_emissions",
         "early_warning_prevention", "complexity_risk"}

\* a GameMetrics value given in whole points
Points(v, e, s, w, c) ==
    [visibility_insight |-> v * Unit, efficiency_throughput |-> e * Unit,
     sustainability_emissions |-> s * Unit, early_warning_prevention |-> w * Unit,
     complexity_risk |-> c * Unit]

INITIAL_METRICS == Points(25, 30, 30, 20, 20)

ClampMetricsNoCeiling(metrics) ==
    [visibility_insight |-> Max(0, metrics.visibility_insight),
     efficiency_throughput |-> Max(0, metrics.efficiency_throughput),
     sustainability_emissions |-> Max(0, metrics.sustainability_emissions),
     early_warning_prevention |-> Max(0, metrics.early_warning_prevention),
     complexity_risk |-> Max(0, metrics.complexity_risk)]

\* efficiency_throughput clamped from the field of the line above it
ClampMetricsCrossed(metrics) ==
    [visibility_insight |-> Max(0, Min(100 * Unit, metrics.visibility_insight)),
     efficiency_throughput |-> Max(0, Min(100 * Unit, metrics.visibility_insight)),
     sustainability_emissions |-> Max(0, Min(100 * Unit, metrics.sustainability_emissions)),
     early_warning_prevention |-> Max(0, Min(100 * Unit, metrics.early_warning_prevention)),
     complexity_risk |-> Max(0, Min(100 * Unit, metrics.complexity_risk))]

clampMetrics(metrics) ==
    [visibility_insight |-> Max(0, Min(100 * Unit, metrics.visibility_insight)),
     efficiency_throughput |-> Max(0, Min(100 * Unit, metrics.efficiency_throughput)),
     sustainability_emissions |-> Max(0, Min(100 * Unit, metrics.sustainability_emissions)),
     early_warning_prevention |-> Max(0, Min(100 * Unit, metrics.early_warning_prevention)),
     complexity_risk |-> Max(0, Min(100 * Unit, metrics.complexity_risk))]

\* allocations[cardId] || 0
Tokens(alloc, cardId) == IF cardId \in DOMAIN alloc THEN alloc[cardId] ELSE 0

\* `x = source` in place of a copy: the writes reach the source object
SourceAfterAssignment(source, written) == written

\* `{ ...source }`: a new object is written to, so that the source object holds
\* what it held, whatever the copy has come to hold (`written`)
SourceAfterSpread(source, written) == source

\* `source.push(...)` in place of a copy: the source array holds the new list
ListAfterPush(source, written) == written

\* `[...source]`: a new array is built, so that the source array holds what it
\* held, whatever the new array has come to hold (`written`)
ListAfterSpread(source, written) == source

-----------------------------------------------------------------------------
(* applyDisasterPenalties *)

\* disasterConfig.mitigatedBy?.some((cardId) => (allocations[cardId] || 0) > 0);
\* an absent list gives undefined, which the caller negates to true
IsMitigatedAnyAllocationKey(disasterConfig, alloc) ==
    /\ "mitigatedBy" \in DOMAIN disasterConfig
    /\ \E i \in 1..Len(disasterConfig.mitigatedBy) :
          disasterConfig.mitigatedBy[i] \in DOMAIN alloc

IsMitigated(disasterConfig, alloc) ==
    /\ "mitigatedBy" \in DOMAIN disasterConfig
    /\ \E i \in 1..Len(disasterConfig.mitigatedBy) :
          Tokens(alloc, disasterConfig.mitigatedBy[i]) > 0

\* penaltyScale: number = 1
DEFAULT_PENALTY_SCALE == Unit

PenalizeUnscaled(metrics, penalties, scale) ==
    [d \in Dims |-> IF d \in DOMAIN penalties
                      THEN metrics[d] + penalties[d] * Unit
                      ELSE metrics[d]]

\* the inner forEach over Object.entries(disasterConfig.penalties)
Penalize(metrics, penalties, scale) ==
    [d \in Dims |-> IF d \in DOMAIN penalties
                      THEN metrics[d] + penalties[d] * scale
                      ELSE metrics[d]]

\* the descriptor pushed onto triggeredDisasters
DisasterEventOf(disasterConfig, round) ==
    IF "mitigatedBy" \in DOMAIN disasterConfig
      THEN [id |-> disasterConfig.id, round |-> round,
            triggerMetric |-> disasterConfig.triggerMetric,
            threshold |-> disasterConfig.threshold,
            penalties |-> disasterConfig.penalties,
            copyKey |-> disasterConfig.copyKey,
            mitigatedBy |-> disasterConfig.mitigatedBy]
      ELSE [id |-> disasterConfig.id, round |-> round,
            triggerMetric |-> disasterConfig.triggerMetric,
            threshold |-> disasterConfig.threshold,
            penalties |-> disasterConfig.penalties,
            copyKey |-> disasterConfig.copyKey]

\* the trigger test of one rule on the metrics held when the loop reaches it
ThresholdMetExclusive(metrics, disasterConfig) ==
    metrics[disasterConfig.triggerMetric] > disasterConfig.threshold * Unit

ThresholdMet(metrics, disasterConfig) ==
    metrics[disasterConfig.triggerMetric] >= disasterConfig.threshold * Unit

RoundMatchesAlways(disasterConfig, round) == TRUE

RoundMatches(disasterConfig, round) == disasterConfig.round = round

\* one pass of the forEach callback; st = [metrics, triggeredDisasters]
DisasterStep(st, disasterConfig, round, alloc, scale) ==
    IF ~RoundMatches(disasterConfig, round) THEN st
    ELSE IF ThresholdMet(st.metrics, disasterConfig)
              /\ ~IsMitigated(disasterConfig, alloc)
      THEN [metrics |-> Penalize(st.metrics, disasterConfig.penalties, scale),
            triggeredDisasters |->
                Append(st.triggeredDisasters, DisasterEventOf(disasterConfig, round))]
      ELSE st

RECURSIVE DisasterLoop(_, _, _, _, _, _)
DisasterLoop(st, list, i, round, alloc, scale) ==
    IF i > Len(list) THEN st
    ELSE DisasterLoop(DisasterStep(st, list[i], round, alloc, scale),
                      list, i + 1, round, alloc, scale)

applyDisasterPenalties(baseMetrics, round, alloc, list, scale) ==
    DisasterLoop([metrics |-> baseMetrics, triggeredDisasters |-> <<>>],
                 list, 1, round, alloc, scale)

-----------------------------------------------------------------------------
(* applyAllocationEffects *)

FindCardOrFirst(cards, cardId) ==
    IF \E i \in 1..Len(cards) : cards[i].id = cardId
      THEN CHOOSE i \in 1..Len(cards) :
               /\ cards[i].id = cardId
               /\ \A j \in 1..(i - 1) : cards[j].id # cardId
      ELSE 1

\* cards.find((c) => c.id === cardId): the index of the first match, 0 when none
FindCard(cards, cardId) ==
    IF \E i \in 1..Len(cards) : cards[i].id = cardId
      THEN CHOOSE i \in 1..Len(cards) :
               /\ cards[i].id = cardId
               /\ \A j \in 1..(i - 1) : cards[j].id # cardId
      ELSE 0

TokenMultiplierLateStart(i, tm) ==
    IF i > tm.diminishingReturnsThreshold THEN tm.diminishingReturnsMultiplier ELSE Unit

\* the multiplier of token index i (0-based)
TokenMultiplier(i, tm) ==
    IF i >= tm.diminishingReturnsThreshold THEN tm.diminishingReturnsMultiplier ELSE Unit

\* for (let i = 0; i < tokens; i++) { updated.<dim> += perTokenEffects.<dim> * multiplier }
RECURSIVE TokenLoop(_, _, _, _, _)
TokenLoop(updated, effects, i, tokens, tm) ==
    IF i >= tokens THEN updated
    ELSE TokenLoop([d \in Dims |-> updated[d] + effects[d] * TokenMultiplier(i, tm)],
                   effects, i + 1, tokens, tm)

\* the callback with a loop that runs its body before testing i < tokens
AllocationStepAtLeastOnce(updated, cardId, tokens, cards, tm) ==
    IF FindCard(cards, cardId) = 0 THEN updated
    ELSE TokenLoop(updated, cards[FindCard(cards, cardId)].perTokenEffects, 0,
                   IF tokens < 1 THEN 1 ELSE tokens, tm)

\* one pass of the forEach callback over Object.entries(allocations)
AllocationStep(updated, cardId, tokens, cards, tm) ==
    IF tokens = 0 THEN updated
    ELSE IF FindCard(cards, cardId) = 0 THEN updated
    ELSE TokenLoop(updated, cards[FindCard(cards, cardId)].perTokenEffects, 0, tokens, tm)

\* the forEach itself; the additions commute, so the entries are taken in any order
RECURSIVE AllocationLoop(_, _, _, _, _)
AllocationLoop(updated, alloc, keys, cards, tm) ==
    IF keys = {} THEN updated
    ELSE LET cardId == CHOOSE k \in keys : TRUE
         IN  AllocationLoop(AllocationStep(updated, cardId, alloc[cardId], cards, tm),
                            alloc, keys \ {cardId}, cards, tm)

\* Object.keys(allocations).length in place of the sum of the values
SumTokensCountsEntries(alloc, keys) == Cardinality(keys)

\* Object.values(allocations).reduce((sum, t) => sum + t, 0)
RECURSIVE SumTokens(_, _)
SumTokens(alloc, keys) ==
    IF keys = {} THEN 0
    ELSE LET k == CHOOSE x \in keys : TRUE
         IN  alloc[k] + SumTokens(alloc, keys \ {k})

applyAllocationEffects(baseMetrics, alloc, cards, tm) ==
    LET totalTokensUsed == SumTokens(alloc, DOMAIN alloc)
        updated == AllocationLoop(baseMetrics, alloc, DOMAIN alloc, cards, tm)
    IN  IF totalTokensUsed > tm.iotSprawlThreshold
          THEN [updated EXCEPT !.complexity_risk =
                   @ + (totalTokensUsed - tm.iotSprawlThreshold)
                         * tm.iotSprawlPenaltyPerToken * Unit]
          ELSE updated

-----------------------------------------------------------------------------
(* applySynergyBonuses *)

\* synergy.cards.filter((cardId) => (allocations[cardId] || 0) >= 1)
ParticipatingCards(synergy, alloc) ==
    SelectSeq(synergy.cards, LAMBDA cardId : Tokens(alloc, cardId) >= 1)

\* Math.min(...synergy.cards.map((cardId) => allocations[cardId] || 0)), cards non-empty
RECURSIVE MinTokensFrom(_, _, _)
MinTokensFrom(cardIds, alloc, i) ==
    IF i = Len(cardIds) THEN Tokens(alloc, cardIds[i])
    ELSE Min(Tokens(alloc, cardIds[i]), MinTokensFrom(cardIds, alloc, i + 1))

MinTokensAsMaximum(synergy, alloc) ==
    CHOOSE t \in {Tokens(alloc, synergy.cards[i]) : i \in 1..Len(synergy.cards)} :
        \A j \in 1..Len(synergy.cards) : Tokens(alloc, synergy.cards[j]) <= t

MinTokens(synergy, alloc) == MinTokensFrom(synergy.cards, alloc, 1)

SynergyActiveAnyCard(synergy, alloc) ==
    Len(ParticipatingCards(synergy, alloc)) >= 1

SynergyActive(synergy, alloc) ==
    Len(ParticipatingCards(synergy, alloc)) = Len(synergy.cards)

\* one pass of the forEach callback; st = [metrics, activeSynergies]
SynergyStepOverwrite(st, synergy, alloc) ==
    IF SynergyActive(synergy, alloc)
      THEN LET scaledBonus == synergy.bonusAmount * MinTokens(synergy, alloc)
           IN  [metrics |-> [st.metrics EXCEPT ![synergy.bonusEffect] =
                                 st.metrics[synergy.bonusEffect] + scaledBonus * Unit],
                activeSynergies |->
                    <<[id |-> synergy.id, nameKey |-> synergy.nameKey,
                       bonusEffect |-> synergy.bonusEffect,
                       bonusAmount |-> synergy.bonusAmount,
                       participatingCards |-> ParticipatingCards(synergy, alloc),
                       scaledBonus |-> scaledBonus]>>]
      ELSE st

SynergyStep(st, synergy, alloc) ==
    IF SynergyActive(synergy, alloc)
      THEN LET scaledBonus == synergy.bonusAmount * MinTokens(synergy, alloc)
           IN  [metrics |-> [st.metrics EXCEPT ![synergy.bonusEffect] =
                                 @ + scaledBonus * Unit],
                activeSynergies |->
                    Append(st.activeSynergies,
                           [id |-> synergy.id, nameKey |-> synergy.nameKey,
                            bonusEffect |-> synergy.bonusEffect,
                            bonusAmount |-> synergy.bonusAmount,
                            participatingCards |-> ParticipatingCards(synergy, alloc),
                            scaledBonus |-> scaledBonus])]
      ELSE st

RECURSIVE SynergyLoop(_, _, _, _)
SynergyLoop(st, list, i, alloc) ==
    IF i > Len(list) THEN st
    ELSE SynergyLoop(SynergyStep(st, list[i], alloc), list, i + 1, alloc)

applySynergyBonuses(baseMetrics, alloc, list) ==
    SynergyLoop([metrics |-> baseMetrics, activeSynergies |-> <<>>], list, 1, alloc)

-----------------------------------------------------------------------------
(* calculateRoundEffects *)

\* the pipeline without checkpoint 1
CalculateRoundEffectsClampOnce(before, alloc, cards, config, list, round, scale) ==
    LET metrics1 == applyAllocationEffects(before, alloc, cards, config.tokenMechanics)
        synergyResult == applySynergyBonuses(metrics1, alloc, list)
        disasterResult ==
            applyDisasterPenalties(synergyResult.metrics, round, alloc,
                                   config.disasters, scale)
    IN  [metricsAfter |-> clampMetrics(disasterResult.metrics),
         activeSynergies |-> synergyResult.activeSynergies,
         triggeredDisasters |-> disasterResult.triggeredDisasters]

calculateRoundEffects(before, alloc, cards, config, list, round, scale) ==
    LET metrics1 == applyAllocationEffects(before, alloc, cards, config.tokenMechanics)
        synergyResult == applySynergyBonuses(metrics1, alloc, list)
        metrics2 == clampMetrics(synergyResult.metrics)
        disasterResult ==
            applyDisasterPenalties(metrics2, round, alloc, config.disasters, scale)
        metrics3 == clampMetrics(disasterResult.metrics)
    IN  [metricsAfter |-> metrics3,
         activeSynergies |-> synergyResult.activeSynergies,
         triggeredDisasters |-> disasterResult.triggeredDisasters]

-----------------------------------------------------------------------------
(* Difficulty presets *)

\* the two rules the hard preset appends (additionalDisasters)
SupplyChainDisruption ==
    [id |-> "supply_chain_disruption", round |-> 2,
     triggerMetric |-> "visibility_insight", threshold |-> 35,
     penalties |-> [efficiency_throughput |-> -10, early_warning_prevention |-> -5],
     copyKey |-> "disasters.supplyChainDisruption",
     mitigatedBy |-> <<"warehouseFlow", "digitalTwin">>]

EnergyCrisis ==
    [id |-> "energy_crisis", round |-> 2,
     triggerMetric |-> "sustainability_emissions", threshold |-> 35,
     penalties |-> [sustainability_emissions |-> -15, efficiency_throughput |-> -5],
     copyKey |-> "disasters.energyCrisis",
     mitigatedBy |-> <<"energyMonitoring", "smartBuilding">>]

DIFFICULTY_PRESETS ==
    [easy |->
        [tokensPerRound |-> <<12, 7, 7>>,
         tokenMechanics |-> [diminishingReturnsThreshold |-> 4,
                             diminishingReturnsMultiplier |-> 12,
                             iotSprawlThreshold |-> 14,
                             iotSprawlPenaltyPerToken |-> 1],
         disasterPenaltyScale |-> 15],
     normal |->
        [tokensPerRound |-> <<10, 5, 5>>,
         tokenMechanics |-> [diminishingReturnsThreshold |-> 3,
                             diminishingReturnsMultiplier |-> 10,
                             iotSprawlThreshold |-> 12,
                             iotSprawlPenaltyPerToken |-> 2],
         disasterPenaltyScale |-> 20],
     hard |->
        [tokensPerRound |-> <<8, 4, 4>>,
         tokenMechanics |-> [diminishingReturnsThreshold |-> 2,
                             diminishingReturnsMultiplier |-> 8,
                             iotSprawlThreshold |-> 10,
                             iotSprawlPenaltyPerToken |-> 3],
         disasterPenaltyScale |-> 25,
         additionalDisasters |-> <<SupplyChainDisruption, EnergyCrisis>>]]

Difficulties == {"easy", "normal", "hard"}

\* the preset of another difficulty than the one asked for
PresetOfNormal(difficulty) == DIFFICULTY_PRESETS["normal"]

\* DIFFICULTY_PRESETS[difficulty]
PresetOf(difficulty) == DIFFICULTY_PRESETS[difficulty]

\* the additional rules in place of the base ones
WithAdditionalOnly(list, preset) ==
    IF "additionalDisasters" \in DOMAIN preset THEN preset.additionalDisasters ELSE list

\* if (preset.additionalDisasters) disasters = [...disasters, ...additional]
WithAdditional(list, preset) ==
    IF "additionalDisasters" \in DOMAIN preset
      THEN list \o preset.additionalDisasters
      ELSE list

getConfigForDifficulty(baseConfig, difficulty) ==
    LET preset == PresetOf(difficulty)
        copied == baseConfig.disasters
    IN  [baseConfig EXCEPT !.tokenMechanics = preset.tokenMechanics,
                           !.disasters = WithAdditional(copied, preset)]

getTokensPerRound(difficulty) == PresetOf(difficulty).tokensPerRound

getDisasterPenaltyScale(difficulty) == PresetOf(difficulty).disasterPenaltyScale

\* rounds of a game
Rounds == 1..3

-----------------------------------------------------------------------------
(* Inputs the engine is exercised on *)

\* the rule of the engine's own disaster tests
Disaster1 ==
    [id |-> "disaster1", round |-> 3,
     triggerMetric |-> "complexity_risk", threshold |-> 80,
     penalties |-> [efficiency_throughput |-> -20, complexity_risk |-> 5],
     copyKey |-> "disasters.test1",
     mitigatedBy |-> <<"securityHardening">>]

\* a rule of the same round without a mitigatedBy field, triggered by a dimension
\* that Disaster1 lowers
Cascade ==
    [id |-> "cascade", round |-> 3,
     triggerMetric |-> "efficiency_throughput", threshold |-> 30,
     penalties |-> [visibility_insight |-> -10],
     copyKey |-> "disasters.cascade"]

\* a rule of the same round with an empty mitigatedBy list, triggered by the
\* dimension that Disaster1 raises
Overload ==
    [id |-> "overload", round |-> 3,
     triggerMetric |-> "complexity_risk", threshold |-> 85,
     penalties |-> [early_warning_prevention |-> -5],
     copyKey |-> "disasters.overload",
     mitigatedBy |-> <<>>]

\* a rule whose threshold no clamped metric reaches
Unreachable ==
    [id |-> "unreachable", round |-> 1,
     triggerMetric |-> "visibility_insight", threshold |-> 105,
     penalties |-> [efficiency_throughput |-> -10],
     copyKey |-> "disasters.unreachable"]

\* a rule whose threshold is above 100, triggered by the dimension that Disaster1
\* raises, in the round of Disaster1
Overflow ==
    [id |-> "overflow", round |-> 3,
     triggerMetric |-> "complexity_risk", threshold |-> 101,
     penalties |-> [sustainability_emissions |-> -5],
     copyKey |-> "disasters.overflow"]

DisasterPool == {Disaster1, Cascade, Overload, SupplyChainDisruption}

\* every list of at most n different elements of S
SeqsUpTo(S, n) ==
    UNION {{q \in [1..k -> S] : \A i, j \in 1..k : q[i] = q[j] => i = j} : k \in 0..n}

\* every allocation map over some of the card ids K
AllocationMaps(K) == UNION {[D -> 0..MaxTokens] : D \in SUBSET K}

\* penalty scales: the three presets and the 0.5 of the engine's test
PenaltyScales == {10, 15, 20, 25}

\* the card catalog of the engine's integration test, and one risk-reducing card
Effects(v, e, s, w, c) ==
    [visibility_insight |-> v, efficiency_throughput |-> e,
     sustainability_emissions |-> s, early_warning_prevention |-> w,
     complexity_risk |-> c]

Cards ==
    <<[id |-> "digitalTwin", perTokenEffects |-> Effects(8, 0, 0, 0, 3)],
      [id |-> "predictiveMaintenance", perTokenEffects |-> Effects(0, 0, 0, 6, 2)],
      [id |-> "gridSensors", perTokenEffects |-> Effects(4, 0, 0, 5, 2)],
      [id |-> "securityHardening", perTokenEffects |-> Effects(0, -2, 0, 0, -7)]>>

\* the synergy rules of the engine's synergy tests, one with a negative bonus,
\* and one sharing its target dimension with Synergy1
Synergy1 ==
    [id |-> "synergy1", cards |-> <<"card1", "card2">>,
     nameKey |-> "synergies.test1.name",
     bonusEffect |-> "visibility_insight", bonusAmount |-> 5]

Synergy2 ==
    [id |-> "synergy2", cards |-> <<"card2", "card3", "card4">>,
     nameKey |-> "synergies.test2.name",
     bonusEffect |-> "efficiency_throughput", bonusAmount |-> 3]

Synergy3 ==
    [id |-> "synergy3", cards |-> <<"card1", "card4">>,
     nameKey |-> "synergies.test3.name",
     bonusEffect |-> "complexity_risk", bonusAmount |-> -3]

Synergy4 ==
    [id |-> "synergy4", cards |-> <<"card3", "card4">>,
     nameKey |-> "synergies.test4.name",
     bonusEffect |-> "visibility_insight", bonusAmount |-> 2]

\* the thresholds of the configuration that the engine passes through
FeedbackThresholds ==
    [highVisibilityDelta |-> 8, highEfficiencyDelta |-> 8, highSustainabilityDelta |-> 8,
     highEarlyWarningDelta |-> 8, highComplexityDelta |-> 10,
     criticalComplexityAbsolute |-> 60, lowEarlyWarningDelta |-> 5,
     balancedGrowthMinDelta |-> 3, balancedGrowthMaxComplexity |-> 8]

UnlockConditions == [complexityHighThreshold |-> 40]

SynergyPool == {Synergy1, Synergy2, Synergy3, Synergy4}

\* the synergies of the integration test, and a risk-reducing pair
VisibilityMaintenance ==
    [id |-> "visibility-maintenance",
     cards |-> <<"digitalTwin", "predictiveMaintenance", "gridSensors">>,
     nameKey |-> "synergies.visibilityMaintenance.name",
     bonusEffect |-> "early_warning_prevention", bonusAmount |-> 2]

SecuritySynergy ==
    [id |-> "security-synergy", cards |-> <<"securityHardening", "digitalTwin">>,
     nameKey |-> "synergies.security.name",
     bonusEffect |-> "complexity_risk", bonusAmount |-> -3]

-----------------------------------------------------------------------------
(* The game session: the operations of the GameProvider on its GameState *)

\* most tokens a card holds: the 3 of Math.min(3, ...) in allocateTokens
MAX_TOKENS_PER_CARD == 3

\* the last round of a game
LAST_ROUND == 3

\* allocations: {}
NoAllocations == [cardId \in {} |-> 0]

\* the default state of getInitialGameState: nothing is restored from storage
getInitialGameState(d) ==
    [currentRound |-> 1,
     metrics |-> INITIAL_METRICS,
     tokensAvailable |-> getTokensPerRound(d)[1],
     allocations |-> NoAllocations,
     roundHistory |-> <<>>,
     disasterEvents |-> <<>>,
     preMortemAnswer |-> "null",
     isGameComplete |-> FALSE,
     difficulty |-> d]

\* Math.min without the 3
NewTokensNoCap(tokens, currentAllocation, available) ==
    Max(0, Min(tokens, currentAllocation + available))

\* Math.max(0, Math.min(3, Math.min(tokens, currentAllocation + available)))
NewTokens(tokens, currentAllocation, available) ==
    Max(0, Min(MAX_TOKENS_PER_CARD, Min(tokens, currentAllocation + available)))

allocateTokens(prev, cardId, tokens) ==
    LET currentAllocation == Tokens(prev.allocations, cardId)
        otherAllocations ==
            SumTokens(prev.allocations, DOMAIN prev.allocations \ {cardId})
        available == prev.tokensAvailable - otherAllocations
        newTokens == NewTokens(tokens, currentAllocation, available)
    IN  [prev EXCEPT !.allocations =
            [c \in DOMAIN prev.allocations \cup {cardId} |->
                IF c = cardId THEN newTokens ELSE prev.allocations[c]]]

\* the first index of a history entry of the round, 0 if there is none
\* (findIndex, and find by its index)
RoundIndex(history, round) ==
    IF \E i \in 1..Len(history) : history[i].round = round
      THEN CHOOSE i \in 1..Len(history) :
              /\ history[i].round = round
              /\ \A j \in 1..(i - 1) : history[j].round # round
      ELSE 0

\* the metrics the state holds, in place of the stored ones
RunPlanMetricsBeforeCurrent(prev) == prev.metrics

\* metricsBefore of runPlan
RunPlanMetricsBefore(prev) ==
    IF prev.currentRound = 1
      THEN INITIAL_METRICS
      ELSE IF RoundIndex(prev.roundHistory, prev.currentRound - 1) > 0
             THEN prev.roundHistory[RoundIndex(prev.roundHistory,
                                               prev.currentRound - 1)].metricsAfter
             ELSE INITIAL_METRICS

\* the RoundHistoryEntry of a run; events and activeSynergies are undefined when
\* their lists are empty
HistoryEntry(round, before, effects, alloc) ==
    LET entry == [round |-> round, metricsBefore |-> before,
                  metricsAfter |-> effects.metricsAfter, allocations |-> alloc]
        events == IF Len(effects.triggeredDisasters) > 0
                    THEN [events |-> effects.triggeredDisasters]
                    ELSE <<>>
        active == IF Len(effects.activeSynergies) > 0
                    THEN [activeSynergies |-> effects.activeSynergies]
                    ELSE <<>>
    IN  entry @@ events @@ active

\* the entry always pushed at the end
UpdatedHistoryAppend(history, entry) == Append(history, entry)

\* updatedHistory: the entry of the round replaced in place, or a new last entry
UpdatedHistory(history, entry) ==
    LET existingRoundIndex == RoundIndex(history, entry.round)
    IN  IF existingRoundIndex > 0
          THEN [history EXCEPT ![existingRoundIndex] = entry]
          ELSE Append(history, entry)

\* updatedDisasterEvents: each triggered disaster pushed unless one with its id
\* and round is there
RECURSIVE UpdatedDisasterEvents(_, _, _)
UpdatedDisasterEvents(events, triggered, i) ==
    IF i > Len(triggered)
      THEN events
      ELSE UpdatedDisasterEvents(
              IF \E k \in 1..Len(events) :
                    events[k].id = triggered[i].id /\ events[k].round = triggered[i].round
                THEN events
                ELSE Append(events, triggered[i]),
              triggered, i + 1)

\* isGameComplete set whatever the round
CompleteAfterRunAlways(prev) == TRUE

\* isGameComplete: prev.currentRound === 3
CompleteAfterRun(prev) == prev.currentRound = LAST_ROUND

runPlan(prev, cards, config, list, scale) ==
    LET before == RunPlanMetricsBefore(prev)
        effects == calculateRoundEffects(before, prev.allocations, cards, config, list,
                                         prev.currentRound, scale)
        entry == HistoryEntry(prev.currentRound, before, effects, prev.allocations)
    IN  [prev EXCEPT
            !.metrics = effects.metricsAfter,
            !.roundHistory = UpdatedHistory(prev.roundHistory, entry),
            !.disasterEvents =
                UpdatedDisasterEvents(prev.disasterEvents, effects.triggeredDisasters, 1),
            !.isGameComplete = CompleteAfterRun(prev)]

\* every token kept
KeptTokensAll(tokens) == tokens

\* Math.floor(tokens * 0.5)
KeptTokens(tokens) == tokens \div 2

\* keptAllocations of a map
KeptAllocations(alloc) == [cardId \in DOMAIN alloc |-> KeptTokens(alloc[cardId])]

nextRound(prev, tokensPerRound) ==
    LET nextRoundNum == prev.currentRound + 1
        keptAllocations == KeptAllocations(prev.allocations)
        carryoverTotal == SumTokens(keptAllocations, DOMAIN keptAllocations)
        totalBudget == tokensPerRound[nextRoundNum] + carryoverTotal
    IN  IF nextRoundNum > LAST_ROUND
          THEN prev
          ELSE [prev EXCEPT !.currentRound = nextRoundNum,
                            !.tokensAvailable = totalBudget,
                            !.allocations = keptAllocations]

\* reset: the state literal of reset, which is the default state
reset(tokensPerRound, d) ==
    [currentRound |-> 1,
     metrics |-> INITIAL_METRICS,
     tokensAvailable |-> tokensPerRound[1],
     allocations |-> NoAllocations,
     roundHistory |-> <<>>,
     disasterEvents |-> <<>>,
     preMortemAnswer |-> "null",
     isGameComplete |-> FALSE,
     difficulty |-> d]

resetRound(prev) ==
    IF prev.currentRound = 1
      THEN [prev EXCEPT !.allocations = NoAllocations]
      ELSE IF Len(prev.roundHistory) > 0
             THEN [prev EXCEPT !.allocations =
                     KeptAllocations(prev.roundHistory[Len(prev.roundHistory)].allocations)]
             ELSE [prev EXCEPT !.allocations = NoAllocations]

setDifficulty(prev, newDifficulty) ==
    [prev EXCEPT !.tokensAvailable = getTokensPerRound(newDifficulty)[prev.currentRound],
                 !.difficulty = newDifficulty]

setPreMortemAnswer(prev, answer) == [prev EXCEPT !.preMortemAnswer = answer]

-----------------------------------------------------------------------------
(* Calls of the engine.  A call reads the inputs, leaves its return value in  *)
(* result, and leaves in metricsBefore what the caller's object then holds.   *)

CallApplyDisasterPenalties ==
    /\ result' = [fn |-> "applyDisasterPenalties", scale |-> penaltyScale,
                  out |-> applyDisasterPenalties(metricsBefore, currentRound, allocations,
                                                 disasters, penaltyScale)]
    /\ metricsBefore' = SourceAfterSpread(metricsBefore,
                            SourceAfterSpread(metricsBefore, result'.out.metrics))
    /\ UNCHANGED argumentsReadOnly
    /\ UNCHANGED session

\* the call without the last argument: penaltyScale takes its default
CallApplyDisasterPenaltiesDefaultScale ==
    /\ result' = [fn |-> "applyDisasterPenalties", scale |-> DEFAULT_PENALTY_SCALE,
                  out |-> applyDisasterPenalties(metricsBefore, currentRound, allocations,
                                                 disasters, DEFAULT_PENALTY_SCALE)]
    /\ metricsBefore' = SourceAfterSpread(metricsBefore,
                            SourceAfterSpread(metricsBefore, result'.out.metrics))
    /\ UNCHANGED argumentsReadOnly
    /\ UNCHANGED session

CallApplySynergyBonuses ==
    /\ result' = [fn |-> "applySynergyBonuses",
                  out |-> applySynergyBonuses(metricsBefore, allocations, synergies)]
    /\ metricsBefore' = SourceAfterSpread(metricsBefore, result'.out.metrics)
    /\ UNCHANGED argumentsReadOnly
    /\ UNCHANGED session

CallApplyAllocationEffects ==
    /\ result' = [fn |-> "applyAllocationEffects",
                  out |-> applyAllocationEffects(metricsBefore, allocations, Cards,
                                                 tokenMechanics)]
    /\ metricsBefore' = SourceAfterSpread(metricsBefore, result'.out)
    /\ UNCHANGED argumentsReadOnly
    /\ UNCHANGED session

\* clampMetrics reads its argument into a new object literal
CallClampMetrics ==
    /\ result' = [fn |-> "clampMetrics", out |-> clampMetrics(metricsBefore)]
    /\ UNCHANGED inputs
    /\ UNCHANGED session

\* the GameConfig made of the four configuration variables
BaseConfig ==
    [feedbackThresholds |-> feedbackThresholds, tokenMechanics |-> tokenMechanics,
     unlockConditions |-> unlockConditions, disasters |-> disasters]

CallCalculateRoundEffects ==
    /\ result' = [fn |-> "calculateRoundEffects",
                  out |-> calculateRoundEffects(metricsBefore, allocations, Cards,
                              BaseConfig,
                              synergies, currentRound, penaltyScale)]
    /\ metricsBefore' = SourceAfterSpread(metricsBefore,
                            applyAllocationEffects(metricsBefore, allocations, Cards,
                                                   tokenMechanics))
    /\ UNCHANGED argumentsReadOnly
    /\ UNCHANGED session

\* getConfigForDifficulty builds its result from spreads of the base config and
\* of its disaster list; tokenMechanics and disasters are what the caller's
\* base config holds after the call
CallGetConfigForDifficulty ==
    \E difficulty \in Difficulties :
        /\ result' = [fn |-> "getConfigForDifficulty", difficulty |-> difficulty,
                      out |-> getConfigForDifficulty(BaseConfig, difficulty)]
        /\ tokenMechanics' = SourceAfterSpread(tokenMechanics, result'.out.tokenMechanics)
        /\ disasters' = ListAfterSpread(disasters, result'.out.disasters)
        /\ UNCHANGED <<metricsBefore, allocations, currentRound, penaltyScale, synergies,
                       feedbackThresholds, unlockConditions>>
        /\ UNCHANGED session

CallGetTokensPerRound ==
    \E difficulty \in Difficulties :
        /\ result' = [fn |-> "getTokensPerRound", difficulty |-> difficulty,
                      out |-> getTokensPerRound(difficulty)]
        /\ UNCHANGED inputs
        /\ UNCHANGED session

CallGetDisasterPenaltyScale ==
    \E difficulty \in Difficulties :
        /\ result' = [fn |-> "getDisasterPenaltyScale", difficulty |-> difficulty,
                      out |-> getDisasterPenaltyScale(difficulty)]
        /\ UNCHANGED inputs
        /\ UNCHANGED session

-----------------------------------------------------------------------------
(* Operations of the game session.  result names the last operation. *)

\* config, tokensPerRound, penaltyScale of the GameProvider: memoised on the
\* difficulty state
SessionConfig == getConfigForDifficulty(BaseConfig, selectedDifficulty)

SessionTokensPerRound == getTokensPerRound(selectedDifficulty)

SessionPenaltyScale == getDisasterPenaltyScale(selectedDifficulty)

\* the cards the player allocates to
SessionCardIds == {"digitalTwin", "securityHardening"}

\* tokens arguments of allocateTokens: a negative one and one above 3
AllocateArguments == {-1, MAX_TOKENS_PER_CARD + 2}

PreMortemChoices == {"security_risk", "inefficiency", "environmental_fine"}

AllocateTokens ==
    \E cardId \in SessionCardIds, tokens \in AllocateArguments :
        /\ gameState' = allocateTokens(gameState, cardId, tokens)
        /\ result' = [fn |-> "allocateTokens"]
        /\ UNCHANGED <<inputs, selectedDifficulty>>

RunPlan ==
    /\ gameState' = runPlan(gameState, Cards, SessionConfig, synergies, SessionPenaltyScale)
    /\ result' = [fn |-> "runPlan"]
    /\ UNCHANGED <<inputs, selectedDifficulty>>

NextRound ==
    /\ gameState' = nextRound(gameState, SessionTokensPerRound)
    /\ result' = [fn |-> "nextRound"]
    /\ UNCHANGED <<inputs, selectedDifficulty>>

Reset ==
    /\ gameState' = reset(SessionTokensPerRound, selectedDifficulty)
    /\ result' = [fn |-> "reset"]
    /\ UNCHANGED <<inputs, selectedDifficulty>>

ResetRound ==
    /\ gameState' = resetRound(gameState)
    /\ result' = [fn |-> "resetRound"]
    /\ UNCHANGED <<inputs, selectedDifficulty>>

SetDifficulty ==
    \E newDifficulty \in Difficulties :
        /\ selectedDifficulty' = newDifficulty
        /\ gameState' = setDifficulty(gameState, newDifficulty)
        /\ result' = [fn |-> "setDifficulty"]
        /\ UNCHANGED inputs

SetPreMortemAnswer ==
    \E answer \in PreMortemChoices :
        /\ gameState' = setPreMortemAnswer(gameState, answer)
        /\ result' = [fn |-> "setPreMortemAnswer"]
        /\ UNCHANGED <<inputs, selectedDifficulty>>

-----------------------------------------------------------------------------
(* The round orchestrator on whole rounds *)

RoundMetrics ==
    {INITIAL_METRICS, Points(0, 0, 0, 0, 0), Points(100, 100, 100, 100, 100),
     Points(95, 30, 30, 20, 20), Points(25, 30, 30, 20, 78), Points(95, 15, 30, 20, 85)}

RoundDisasterLists ==
    {<<>>, <<Unreachable, Disaster1>>, <<Disaster1, Overload, Cascade>>,
     <<Cascade, SupplyChainDisruption, EnergyCrisis, Disaster1>>,
     <<Disaster1, Overflow>>}

RoundSynergyLists ==
    {<<VisibilityMaintenance, SecuritySynergy>>}

Init ==
    /\ metricsBefore \in RoundMetrics
    /\ allocations \in AllocationMaps({Cards[i].id : i \in 1..Len(Cards)})
    /\ currentRound \in Rounds
    /\ \E d \in Difficulties :
          /\ tokenMechanics = DIFFICULTY_PRESETS[d].tokenMechanics
          /\ penaltyScale = DIFFICULTY_PRESETS[d].disasterPenaltyScale
    /\ synergies \in RoundSynergyLists
    /\ disasters \in RoundDisasterLists
    /\ feedbackThresholds = FeedbackThresholds
    /\ unlockConditions = UnlockConditions
    /\ selectedDifficulty = "normal"
    /\ gameState = getInitialGameState(selectedDifficulty)
    /\ result = [fn |-> "none"]

Next == CallCalculateRoundEffects

Spec == Init /\ [][Next]_vars

-----------------------------------------------------------------------------
(* The disaster evaluator on its own *)

DisasterMetrics ==
    {Points(v, e, 30, 20, c) : v \in {25, 35}, e \in {10, 30}, c \in {75, 80, 85}}

InitDisaster ==
    /\ metricsBefore \in DisasterMetrics
    /\ allocations \in AllocationMaps({"securityHardening", "digitalTwin"})
    /\ currentRound \in Rounds
    /\ tokenMechanics = DIFFICULTY_PRESETS["normal"].tokenMechanics
    /\ penaltyScale \in PenaltyScales
    /\ synergies = <<>>
    /\ disasters \in SeqsUpTo(DisasterPool, MaxDisasters)
    /\ feedbackThresholds = FeedbackThresholds
    /\ unlockConditions = UnlockConditions
    /\ selectedDifficulty = "normal"
    /\ gameState = getInitialGameState(selectedDifficulty)
    /\ result = [fn |-> "none"]

NextDisaster ==
    \/ CallApplyDisasterPenalties
    \/ CallApplyDisasterPenaltiesDefaultScale

DisasterSpec == InitDisaster /\ [][NextDisaster]_vars

-----------------------------------------------------------------------------
(* The synergy evaluator on its own *)

InitSynergy ==
    /\ metricsBefore \in {INITIAL_METRICS, Points(0, 0, 0, 0, 0)}
    /\ allocations \in AllocationMaps({"card1", "card2", "card3", "card4"})
    /\ currentRound = 1
    /\ tokenMechanics = DIFFICULTY_PRESETS["normal"].tokenMechanics
    /\ penaltyScale = DIFFICULTY_PRESETS["normal"].disasterPenaltyScale
    /\ synergies \in SeqsUpTo(SynergyPool, MaxSynergies)
    /\ disasters = <<>>
    /\ feedbackThresholds = FeedbackThresholds
    /\ unlockConditions = UnlockConditions
    /\ selectedDifficulty = "normal"
    /\ gameState = getInitialGameState(selectedDifficulty)
    /\ result = [fn |-> "none"]

NextSynergy == CallApplySynergyBonuses

SynergySpec == InitSynergy /\ [][NextSynergy]_vars

-----------------------------------------------------------------------------
(* The allocation effect applier on its own *)

\* a card id that the catalog does not hold
RetiredCard == "retiredCard"

\* token counts beyond the 3 of the user interface and beyond every preset's
\* diminishing-returns threshold
AllocationTokenCounts == 0..(MaxTokens + 2)

AllocationInputs ==
    UNION {[D -> AllocationTokenCounts] :
              D \in SUBSET {"digitalTwin", "gridSensors", "securityHardening", RetiredCard}}

InitAllocation ==
    /\ metricsBefore \in {INITIAL_METRICS, Points(0, 0, 0, 0, 0)}
    /\ allocations \in AllocationInputs
    /\ currentRound = 1
    /\ \E d \in Difficulties : tokenMechanics = DIFFICULTY_PRESETS[d].tokenMechanics
    /\ penaltyScale = DIFFICULTY_PRESETS["normal"].disasterPenaltyScale
    /\ synergies = <<>>
    /\ disasters = <<>>
    /\ feedbackThresholds = FeedbackThresholds
    /\ unlockConditions = UnlockConditions
    /\ selectedDifficulty = "normal"
    /\ gameState = getInitialGameState(selectedDifficulty)
    /\ result = [fn |-> "none"]

NextAllocation == CallApplyAllocationEffects

AllocationSpec == InitAllocation /\ [][NextAllocation]_vars

-----------------------------------------------------------------------------
(* The five engine functions called on the same caller-held objects *)

PurityMetrics ==
    {INITIAL_METRICS, Points(95, 15, 30, 20, 85), Points(105, -5, 30, 20, 100)}

InitPurity ==
    /\ metricsBefore \in PurityMetrics
    /\ allocations \in AllocationMaps({"digitalTwin", "predictiveMaintenance",
                                       "securityHardening"})
    /\ currentRound \in Rounds
    /\ \E d \in Difficulties :
          /\ tokenMechanics = DIFFICULTY_PRESETS[d].tokenMechanics
          /\ penaltyScale = DIFFICULTY_PRESETS[d].disasterPenaltyScale
    /\ synergies \in RoundSynergyLists
    /\ disasters \in {<<>>, <<Disaster1, Overload, Cascade>>}
    /\ feedbackThresholds = FeedbackThresholds
    /\ unlockConditions = UnlockConditions
    /\ selectedDifficulty = "normal"
    /\ gameState = getInitialGameState(selectedDifficulty)
    /\ result = [fn |-> "none"]

NextPurity ==
    \/ CallApplyAllocationEffects
    \/ CallApplySynergyBonuses
    \/ CallApplyDisasterPenalties
    \/ CallApplyDisasterPenaltiesDefaultScale
    \/ CallClampMetrics
    \/ CallCalculateRoundEffects

PuritySpec == InitPurity /\ [][NextPurity]_vars

-----------------------------------------------------------------------------
(* Resolving a difficulty against a base configuration *)

\* token mechanics of a base configuration that no preset has
CustomTokenMechanics ==
    [diminishingReturnsThreshold |-> 1, diminishingReturnsMultiplier |-> 15,
     iotSprawlThreshold |-> 6, iotSprawlPenaltyPerToken |-> 4]

InitDifficulty ==
    /\ metricsBefore = INITIAL_METRICS
    /\ allocations = <<>>
    /\ currentRound = 1
    /\ tokenMechanics \in {DIFFICULTY_PRESETS[d].tokenMechanics : d \in Difficulties}
                            \cup {CustomTokenMechanics}
    /\ penaltyScale = DIFFICULTY_PRESETS["normal"].disasterPenaltyScale
    /\ synergies = <<>>
    /\ disasters \in SeqsUpTo(DisasterPool, MaxDisasters)
    /\ feedbackThresholds \in
          {FeedbackThresholds, [FeedbackThresholds EXCEPT !.criticalComplexityAbsolute = 70]}
    /\ unlockConditions \in {UnlockConditions, [complexityHighThreshold |-> 50]}
    /\ selectedDifficulty = "normal"
    /\ gameState = getInitialGameState(selectedDifficulty)
    /\ result = [fn |-> "none"]

NextDifficulty ==
    \/ CallGetConfigForDifficulty
    \/ CallGetTokensPerRound
    \/ CallGetDisasterPenaltyScale

DifficultySpec == InitDifficulty /\ [][NextDifficulty]_vars

-----------------------------------------------------------------------------
(* The clamp on its own *)

\* values of one dimension: below the range, just below it, its two ends, inside
\* it, and just above it (in units of 1/Unit)
ClampValues == {-5 * Unit, -1, 0, 50 * Unit, 100 * Unit, 100 * Unit + 1}

InitClamp ==
    /\ metricsBefore \in [Dims -> ClampValues]
    /\ allocations = <<>>
    /\ currentRound = 1
    /\ tokenMechanics = DIFFICULTY_PRESETS["normal"].tokenMechanics
    /\ penaltyScale = DIFFICULTY_PRESETS["normal"].disasterPenaltyScale
    /\ synergies = <<>>
    /\ disasters = <<>>
    /\ feedbackThresholds = FeedbackThresholds
    /\ unlockConditions = UnlockConditions
    /\ selectedDifficulty = "normal"
    /\ gameState = getInitialGameState(selectedDifficulty)
    /\ result = [fn |-> "none"]

NextClamp == CallClampMetrics

ClampSpec == InitClamp /\ [][NextClamp]_vars

-----------------------------------------------------------------------------
(* The game session at one difficulty *)

\* a rule of round 1 that the security card mitigates
Outage ==
    [id |-> "outage", round |-> 1,
     triggerMetric |-> "complexity_risk", threshold |-> 26,
     penalties |-> [efficiency_throughput |-> -10],
     copyKey |-> "disasters.outage",
     mitigatedBy |-> <<"securityHardening">>]

\* a rule of round 2 that the digital twin mitigates
Blindspot ==
    [id |-> "blindspot", round |-> 2,
     triggerMetric |-> "visibility_insight", threshold |-> 35,
     penalties |-> [early_warning_prevention |-> -5],
     copyKey |-> "disasters.blindspot",
     mitigatedBy |-> <<"digitalTwin">>]

InitSession ==
    /\ metricsBefore = INITIAL_METRICS
    /\ allocations = NoAllocations
    /\ currentRound = 1
    /\ tokenMechanics = DIFFICULTY_PRESETS["normal"].tokenMechanics
    /\ penaltyScale = DIFFICULTY_PRESETS["normal"].disasterPenaltyScale
    /\ synergies = <<SecuritySynergy>>
    /\ disasters = <<Outage, Blindspot>>
    /\ feedbackThresholds = FeedbackThresholds
    /\ unlockConditions = UnlockConditions
    /\ selectedDifficulty = "normal"
    /\ gameState = getInitialGameState(selectedDifficulty)
    /\ result = [fn |-> "none"]

NextSession ==
    \/ AllocateTokens
    \/ RunPlan
    \/ NextRound
    \/ ResetRound
    \/ Reset

SessionSpec == InitSession /\ [][NextSession]_vars

-----------------------------------------------------------------------------
(* The token budget of the game session while the difficulty is changed *)

NextBudget ==
    \/ AllocateTokens
    \/ NextRound
    \/ ResetRound
    \/ Reset
    \/ SetDifficulty
    \/ SetPreMortemAnswer

BudgetSpec == InitSession /\ [][NextBudget]_vars

-----------------------------------------------------------------------------
(* Properties of the disaster evaluator (DisasterSpec).  They are stated on   *)
(* the inputs and on the returned value alone.                                *)

RECURSIVE SumTo(_, _)
SumTo(f, n) == IF n = 0 THEN 0 ELSE f[n] + SumTo(f, n - 1)

DisasterCalled == result.fn = "applyDisasterPenalties"

\* rule i of the list is reported in triggeredDisasters (ids are unique in a list)
DisasterListed(i) ==
    \E j \in 1..Len(result.out.triggeredDisasters) :
        result.out.triggeredDisasters[j].id = disasters[i].id

\* some card of rule i's mitigatedBy list holds at least one token
HasFundedMitigation(i) ==
    /\ "mitigatedBy" \in DOMAIN disasters[i]
    /\ \E k \in 1..Len(disasters[i].mitigatedBy) :
          /\ disasters[i].mitigatedBy[k] \in DOMAIN allocations
          /\ allocations[disasters[i].mitigatedBy[k]] > 0

PenaltyOn(penalties, dim) == IF dim \in DOMAIN penalties THEN penalties[dim] ELSE 0

\* the input metrics plus the scaled penalties of the reported rules before position i
MetricsHeldAt(i, dim) ==
    metricsBefore[dim]
      + SumTo([j \in 1..(i - 1) |->
                  IF DisasterListed(j)
                    THEN PenaltyOn(disasters[j].penalties, dim) * result.scale
                    ELSE 0], i - 1)

\* the input metrics plus the scaled penalties of every reported rule
MetricsPlusReportedPenalties(dim) ==
    metricsBefore[dim]
      + SumTo([j \in 1..Len(result.out.triggeredDisasters) |->
                  PenaltyOn(result.out.triggeredDisasters[j].penalties, dim)
                    * result.scale],
              Len(result.out.triggeredDisasters))

\* C3 (as the specification states it): every rule's trigger is tested on the metrics passed into the
\* function, so a rule is reported exactly when its round is the current one, it
\* is not mitigated, and the INPUT value of its trigger metric is at or above its
\* threshold, whatever the other rules of the list did.
C3_TriggerOnInputSnapshot ==
    DisasterCalled =>
        \A i \in 1..Len(disasters) :
            DisasterListed(i) <=>
                /\ disasters[i].round = currentRound
                /\ ~HasFundedMitigation(i)
                /\ metricsBefore[disasters[i].triggerMetric]
                       >= disasters[i].threshold * Unit

\* C4: a rule whose round differs from currentRound is never reported and never
\* penalises: every reported descriptor carries currentRound and belongs to a
\* rule of that round, the returned metrics are the input plus the penalties of
\* the reported rules only, and a list without a rule of the current round
\* returns the input metrics and an empty list.
C4_RoundScoped ==
    DisasterCalled =>
        /\ \A i \in 1..Len(disasters) :
              disasters[i].round # currentRound => ~DisasterListed(i)
        /\ \A j \in 1..Len(result.out.triggeredDisasters) :
              /\ result.out.triggeredDisasters[j].round = currentRound
              /\ \E i \in 1..Len(disasters) :
                    /\ disasters[i].id = result.out.triggeredDisasters[j].id
                    /\ disasters[i].round = currentRound
        /\ \A dim \in Dims : result.out.metrics[dim] = MetricsPlusReportedPenalties(dim)
        /\ (\A i \in 1..Len(disasters) : disasters[i].round # currentRound) =>
              /\ result.out.metrics = metricsBefore
              /\ result.out.triggeredDisasters = <<>>

\* a rule of another round, unmitigated and with its trigger met, was evaluated
C4_Witness ==
    /\ DisasterCalled
    /\ \E i \in 1..Len(disasters) :
          /\ disasters[i].round # currentRound
          /\ ~HasFundedMitigation(i)
          /\ metricsBefore[disasters[i].triggerMetric] >= disasters[i].threshold * Unit

\* C5: mitigation is binary.  A rule with a funded mitigating card is never
\* reported, however high its trigger metric; a rule of the current round with
\* no mitigatedBy list, an empty one, or only unfunded mitigating cards is
\* reported whenever the metrics held when it is reached are at or above its
\* threshold; and the returned metrics differ from the input by the full scaled
\* penalties of the reported rules and by nothing else, so a call in which every
\* rule is mitigated returns the input metrics and reports nothing.
C5_BinaryMitigation ==
    DisasterCalled =>
        /\ \A i \in 1..Len(disasters) :
              /\ HasFundedMitigation(i) => ~DisasterListed(i)
              /\ ( /\ ~HasFundedMitigation(i)
                   /\ disasters[i].round = currentRound
                   /\ MetricsHeldAt(i, disasters[i].triggerMetric)
                          >= disasters[i].threshold * Unit )
                 => DisasterListed(i)
        /\ \A dim \in Dims : result.out.metrics[dim] = MetricsPlusReportedPenalties(dim)
        /\ (\A i \in 1..Len(disasters) : HasFundedMitigation(i)) =>
              /\ result.out.metrics = metricsBefore
              /\ result.out.triggeredDisasters = <<>>

\* one rule of the current round far above its threshold is suppressed by a
\* funded card, while a rule with no mitigatedBy list or an empty one is reported
C5_Witness ==
    /\ DisasterCalled
    /\ \E i \in 1..Len(disasters) :
          /\ disasters[i].round = currentRound
          /\ HasFundedMitigation(i)
          /\ metricsBefore[disasters[i].triggerMetric]
                 > disasters[i].threshold * Unit
          /\ ~DisasterListed(i)
    /\ \E i \in 1..Len(disasters) :
          /\ ("mitigatedBy" \in DOMAIN disasters[i] => disasters[i].mitigatedBy = <<>>)
          /\ DisasterListed(i)

\* C6: the trigger boundary is inclusive.  An unmitigated rule of the current
\* round is reported exactly when the value of its trigger metric in the metrics
\* held when the rule is reached (the input metrics, for a rule that no reported
\* rule precedes) is equal to or greater than the threshold, and is not
\* reported when that value is strictly below it.
C6_InclusiveThreshold ==
    DisasterCalled =>
        \A i \in 1..Len(disasters) :
            (disasters[i].round = currentRound /\ ~HasFundedMitigation(i)) =>
                /\ MetricsHeldAt(i, disasters[i].triggerMetric)
                       >= disasters[i].threshold * Unit
                   => DisasterListed(i)
                /\ MetricsHeldAt(i, disasters[i].triggerMetric)
                       < disasters[i].threshold * Unit
                   => ~DisasterListed(i)

\* the first rule of the list sits exactly on its threshold and is reported
C6_Witness ==
    /\ DisasterCalled
    /\ Len(disasters) >= 1
    /\ disasters[1].round = currentRound
    /\ ~HasFundedMitigation(1)
    /\ metricsBefore[disasters[1].triggerMetric] = disasters[1].threshold * Unit
    /\ DisasterListed(1)

\* C7: the returned metrics are the input metrics changed, in each dimension, by
\* exactly penalty * penaltyScale for every reported rule that names the
\* dimension in its penalty vector (penaltyScale being 1 when the argument is
\* left out); a dimension that no reported rule names is unchanged; and when no
\* rule is reported the metrics equal the input and triggeredDisasters is empty.
C7_ScaledPenaltyFrame ==
    DisasterCalled =>
        /\ \A dim \in Dims : result.out.metrics[dim] = MetricsPlusReportedPenalties(dim)
        /\ \A dim \in Dims :
              (\A j \in 1..Len(result.out.triggeredDisasters) :
                   dim \notin DOMAIN result.out.triggeredDisasters[j].penalties)
              => result.out.metrics[dim] = metricsBefore[dim]
        /\ result.out.triggeredDisasters = <<>> => result.out.metrics = metricsBefore
        /\ \A j \in 1..Len(result.out.triggeredDisasters) :
              \E i \in 1..Len(disasters) :
                  /\ disasters[i].id = result.out.triggeredDisasters[j].id
                  /\ disasters[i].penalties = result.out.triggeredDisasters[j].penalties
        /\ result.scale \in {penaltyScale, Unit}

\* a rule was reported under a scale other than 1 and left a dimension untouched
C7_Witness ==
    /\ DisasterCalled
    /\ result.scale # Unit
    /\ Len(result.out.triggeredDisasters) = 1
    /\ \E dim \in DOMAIN result.out.triggeredDisasters[1].penalties :
          result.out.metrics[dim] # metricsBefore[dim]
    /\ \E dim \in Dims : dim \notin DOMAIN result.out.triggeredDisasters[1].penalties

-----------------------------------------------------------------------------
(* Properties of the synergy evaluator (SynergySpec) *)

SynergyCalled == result.fn = "applySynergyBonuses"

\* rule i of the list is reported in activeSynergies (ids are unique in a list)
SynergyListed(i) ==
    \E j \in 1..Len(result.out.activeSynergies) :
        result.out.activeSynergies[j].id = synergies[i].id

\* the cards of a rule, as a set
CardSet(synergy) == {synergy.cards[k] : k \in 1..Len(synergy.cards)}

\* every card of the rule is a key of the map `alloc` holding at least one token
FullyFunded(synergy, alloc) ==
    \A c \in CardSet(synergy) : c \in DOMAIN alloc /\ alloc[c] >= 1

\* the smallest token count among the cards of a fully funded rule
WeakestLink(synergy, alloc) ==
    CHOOSE t \in {alloc[c] : c \in CardSet(synergy)} :
        \A c \in CardSet(synergy) : t <= alloc[c]

\* the sum, over the fully funded rules of the list that target dim, of
\* bonusAmount times the weakest link
ExpectedBonus(list, alloc, dim) ==
    SumTo([i \in 1..Len(list) |->
              IF FullyFunded(list[i], alloc) /\ list[i].bonusEffect = dim
                THEN list[i].bonusAmount * WeakestLink(list[i], alloc)
                ELSE 0], Len(list))

\* the rearrangements of a list
Rearrangements(list) ==
    {[i \in 1..Len(list) |-> list[f[i]]] :
        f \in {g \in [1..Len(list) -> 1..Len(list)] :
                  \A a, b \in 1..Len(list) : g[a] = g[b] => a = b}}

\* C8: a synergy rule is reported as active if and only if every card of its
\* cards list is in the allocation map with at least 1 token; when no rule of
\* the list is fully funded the metrics are returned unchanged and
\* activeSynergies is empty, and a dimension targeted only by rules that are not
\* fully funded is unchanged, however many tokens their other cards hold.
C8_AllCardsFunded ==
    SynergyCalled =>
        /\ \A i \in 1..Len(synergies) :
              SynergyListed(i) <=> FullyFunded(synergies[i], allocations)
        /\ (\A i \in 1..Len(synergies) : ~FullyFunded(synergies[i], allocations)) =>
              /\ result.out.metrics = metricsBefore
              /\ result.out.activeSynergies = <<>>
        /\ \A dim \in Dims :
              (\A i \in 1..Len(synergies) :
                   synergies[i].bonusEffect = dim
                       => ~FullyFunded(synergies[i], allocations))
              => result.out.metrics[dim] = metricsBefore[dim]

\* a rule with one card at the largest token count and another card at 0 or
\* missing was evaluated
C8_Witness ==
    /\ SynergyCalled
    /\ \E i \in 1..Len(synergies) :
          /\ \E c \in CardSet(synergies[i]) :
                c \in DOMAIN allocations /\ allocations[c] = MaxTokens
          /\ \E c \in CardSet(synergies[i]) :
                c \in DOMAIN allocations /\ allocations[c] = 0
          /\ \E c \in CardSet(synergies[i]) : c \notin DOMAIN allocations
          /\ ~SynergyListed(i)

\* C9: the scaledBonus reported for an active rule equals bonusAmount times the
\* smallest token count among its cards, and that amount is what its target
\* dimension gains when it is the only rule of the list; one more token on a card
\* that holds more than the minimum changes neither the metrics nor the reported
\* bonuses; and an active rule with a negative bonusAmount that is alone on its
\* target dimension lowers it.
C9_WeakestLinkBonus ==
    SynergyCalled =>
        /\ \A j \in 1..Len(result.out.activeSynergies) :
              \E i \in 1..Len(synergies) :
                  /\ synergies[i].id = result.out.activeSynergies[j].id
                  /\ result.out.activeSynergies[j].bonusAmount = synergies[i].bonusAmount
                  /\ result.out.activeSynergies[j].scaledBonus =
                         synergies[i].bonusAmount * WeakestLink(synergies[i], allocations)
                  /\ Len(synergies) = 1 =>
                         result.out.metrics[synergies[i].bonusEffect] =
                             metricsBefore[synergies[i].bonusEffect]
                               + result.out.activeSynergies[j].scaledBonus * Unit
                  /\ ( /\ synergies[i].bonusAmount < 0
                       /\ \A k \in 1..Len(synergies) :
                             synergies[k].bonusEffect = synergies[i].bonusEffect => k = i )
                     => result.out.metrics[synergies[i].bonusEffect]
                            < metricsBefore[synergies[i].bonusEffect]
        /\ \A i \in 1..Len(synergies) :
              FullyFunded(synergies[i], allocations) =>
                  \A c \in CardSet(synergies[i]) :
                      allocations[c] > WeakestLink(synergies[i], allocations) =>
                          LET raised == [allocations EXCEPT ![c] = @ + 1]
                              again == applySynergyBonuses(metricsBefore, raised,
                                                           <<synergies[i]>>)
                              once == applySynergyBonuses(metricsBefore, allocations,
                                                          <<synergies[i]>>)
                          IN  /\ again.metrics = once.metrics
                              /\ again.activeSynergies[1].scaledBonus =
                                     once.activeSynergies[1].scaledBonus

\* an active rule whose cards hold different token counts, the smallest above 1
C9_Witness ==
    /\ SynergyCalled
    /\ \E i \in 1..Len(synergies) :
          /\ SynergyListed(i)
          /\ WeakestLink(synergies[i], allocations) >= 2
          /\ \E c \in CardSet(synergies[i]) :
                allocations[c] > WeakestLink(synergies[i], allocations)

\* C10: with any number of active rules, every dimension of the returned metrics
\* is the input value plus the sum of the scaled bonuses of the active rules that
\* target it (two rules on one dimension add up, an untargeted dimension is
\* unchanged); the metrics are the same for every order of the rule list; and
\* activeSynergies holds exactly one descriptor per active rule, in list order.
C10_AdditiveOrderFree ==
    SynergyCalled =>
        /\ \A dim \in Dims :
              result.out.metrics[dim] =
                  metricsBefore[dim] + ExpectedBonus(synergies, allocations, dim) * Unit
        /\ \A list \in Rearrangements(synergies) :
              applySynergyBonuses(metricsBefore, allocations, list).metrics
                  = result.out.metrics
        /\ Len(result.out.activeSynergies) =
              Cardinality({i \in 1..Len(synergies) :
                              FullyFunded(synergies[i], allocations)})
        /\ \A j, k \in 1..Len(result.out.activeSynergies) :
              result.out.activeSynergies[j].id = result.out.activeSynergies[k].id
                  => j = k
        /\ \A i \in 1..Len(synergies) :
              FullyFunded(synergies[i], allocations) => SynergyListed(i)

\* two rules with the same target dimension are both active
C10_Witness ==
    /\ SynergyCalled
    /\ Len(result.out.activeSynergies) >= 2
    /\ result.out.activeSynergies[1].bonusEffect = result.out.activeSynergies[2].bonusEffect

-----------------------------------------------------------------------------
(* Properties of the round orchestrator (Spec) *)

RoundCalled == result.fn = "calculateRoundEffects"

\* the stages of the pipeline on the inputs of the state, each stage being the
\* engine function of that name
AfterAllocation ==
    applyAllocationEffects(metricsBefore, allocations, Cards, tokenMechanics)

AfterSynergies == applySynergyBonuses(AfterAllocation, allocations, synergies)

AfterDisasters ==
    applyDisasterPenalties(clampMetrics(AfterSynergies.metrics), currentRound,
                           allocations, disasters, penaltyScale)

\* C1: every one of the five dimensions of the metricsAfter that
\* calculateRoundEffects returns lies in [0, 100], also when the allocation
\* effects, the synergy bonuses or the disaster penalties take an intermediate
\* value out of that range.
C1_MetricsAfterInRange ==
    RoundCalled =>
        \A dim \in Dims :
            /\ result.out.metricsAfter[dim] >= 0
            /\ result.out.metricsAfter[dim] <= 100 * Unit

\* allocation and synergy effects took a dimension above 100 and a disaster
\* penalty took another below 0
C1_Witness ==
    /\ RoundCalled
    /\ \E dim \in Dims : AfterSynergies.metrics[dim] > 100 * Unit
    /\ \E dim \in Dims : AfterDisasters.metrics[dim] < 0

-----------------------------------------------------------------------------
(* Properties of the allocation effect applier (AllocationSpec) *)

AllocationCalled == result.fn = "applyAllocationEffects"

\* the catalog card with this id, as an index of Cards (ids are unique there)
InCatalog(cardId) == \E i \in 1..Len(Cards) : Cards[i].id = cardId

\* the closed form of the schedule: min(k,t) full tokens and max(0,k-t) reduced
\* ones, for k tokens of a card whose per-token effect on the dimension is e
ScheduleTotal(e, k, tm) ==
    Min(k, tm.diminishingReturnsThreshold) * e * Unit
      + Max(0, k - tm.diminishingReturnsThreshold) * e * tm.diminishingReturnsMultiplier

\* the closed forms of all catalog cards in the map `alloc`, added up
CatalogContribution(alloc, tm, dim) ==
    SumTo([i \in 1..Len(Cards) |->
              IF Cards[i].id \in DOMAIN alloc
                THEN ScheduleTotal(Cards[i].perTokenEffects[dim], alloc[Cards[i].id], tm)
                ELSE 0], Len(Cards))

\* the sum of all values of the map, whichever card they belong to
TotalOf(alloc) ==
    SumTo([k \in 1..(MaxTokens + 3) |->
              k * Cardinality({c \in DOMAIN alloc : alloc[c] = k})], MaxTokens + 3)

\* the sprawl surcharge of a total, on a dimension
SprawlOn(total, tm, dim) ==
    IF dim = "complexity_risk" /\ total > tm.iotSprawlThreshold
      THEN (total - tm.iotSprawlThreshold) * tm.iotSprawlPenaltyPerToken * Unit
      ELSE 0

\* C11: a single catalog card funded with k tokens (k above 3 included) changes
\* each dimension by min(k,t)*perToken + max(0,k-t)*perToken*multiplier, the
\* sprawl penalty apart; with several funded cards the changes of the cards add
\* up, each card starting its schedule at token index 0.
C11_DiminishingSchedule ==
    AllocationCalled =>
        /\ \A dim \in Dims :
              result.out[dim] - SprawlOn(TotalOf(allocations), tokenMechanics, dim)
                  = metricsBefore[dim]
                      + CatalogContribution(allocations, tokenMechanics, dim)
        /\ \A i \in 1..Len(Cards) :
              ( /\ Cards[i].id \in DOMAIN allocations
                /\ \A c \in DOMAIN allocations \ {Cards[i].id} : allocations[c] = 0 )
              => \A dim \in Dims :
                    result.out[dim] - SprawlOn(TotalOf(allocations), tokenMechanics, dim)
                        = metricsBefore[dim]
                            + ScheduleTotal(Cards[i].perTokenEffects[dim],
                                            allocations[Cards[i].id], tokenMechanics)

\* two catalog cards are funded, one with more than 3 tokens and more than the
\* threshold, the other below the threshold
C11_Witness ==
    /\ AllocationCalled
    /\ \E i, j \in 1..Len(Cards) :
          /\ i # j
          /\ Cards[i].id \in DOMAIN allocations
          /\ Cards[j].id \in DOMAIN allocations
          /\ allocations[Cards[i].id] > 3
          /\ allocations[Cards[i].id] > tokenMechanics.diminishingReturnsThreshold
          /\ allocations[Cards[j].id] >= 1
          /\ allocations[Cards[j].id] < tokenMechanics.diminishingReturnsThreshold
          /\ result.out # metricsBefore

\* C12: the sprawl penalty depends only on the sum of all values of the
\* allocation map, entries of cards outside the catalog included.  At or below
\* iotSprawlThreshold nothing is added; above it exactly
\* (total - threshold) * iotSprawlPenaltyPerToken is added to complexity_risk
\* and nothing to any other dimension; and one more token on any entry of a map
\* whose total is at or above the threshold adds one more
\* iotSprawlPenaltyPerToken on top of that token's own effect.
C12_SprawlPenalty ==
    AllocationCalled =>
        LET total == TotalOf(allocations)
            surcharge == result.out.complexity_risk - metricsBefore.complexity_risk
                           - CatalogContribution(allocations, tokenMechanics,
                                                 "complexity_risk")
        IN  /\ total <= tokenMechanics.iotSprawlThreshold => surcharge = 0
            /\ total > tokenMechanics.iotSprawlThreshold =>
                  surcharge = (total - tokenMechanics.iotSprawlThreshold)
                                * tokenMechanics.iotSprawlPenaltyPerToken * Unit
            /\ \A dim \in Dims \ {"complexity_risk"} :
                  result.out[dim] = metricsBefore[dim]
                      + CatalogContribution(allocations, tokenMechanics, dim)
            /\ \A c \in DOMAIN allocations :
                  LET raised == [allocations EXCEPT ![c] = @ + 1]
                      own == CatalogContribution(raised, tokenMechanics, "complexity_risk")
                               - CatalogContribution(allocations, tokenMechanics,
                                                     "complexity_risk")
                      more == applyAllocationEffects(metricsBefore, raised, Cards,
                                                     tokenMechanics).complexity_risk
                                - result.out.complexity_risk
                  IN  more - own =
                          IF total >= tokenMechanics.iotSprawlThreshold
                            THEN tokenMechanics.iotSprawlPenaltyPerToken * Unit
                            ELSE 0

\* the total is above the threshold only because of the tokens of a card that
\* is not in the catalog
C12_Witness ==
    /\ AllocationCalled
    /\ RetiredCard \in DOMAIN allocations
    /\ TotalOf(allocations) > tokenMechanics.iotSprawlThreshold
    /\ TotalOf(allocations) - allocations[RetiredCard]
           <= tokenMechanics.iotSprawlThreshold
    /\ result.out.complexity_risk # metricsBefore.complexity_risk

\* card catalogs other than Cards: none, one card, the cards in another order
Catalogs == {<<>>, <<Cards[4]>>, <<Cards[3], Cards[1], Cards[2]>>}

C14_UnknownCardSkipped ==
    AllocationCalled =>
        LET known == [c \in {k \in DOMAIN allocations : InCatalog(k)} |-> allocations[c]]
            without == applyAllocationEffects(metricsBefore, known, Cards, tokenMechanics)
        IN  /\ \A dim \in Dims :
                  result.out[dim] - SprawlOn(TotalOf(allocations), tokenMechanics, dim)
                      = without[dim] - SprawlOn(TotalOf(known), tokenMechanics, dim)
            /\ (\A c \in DOMAIN known : known[c] = 0) =>
                  \A dim \in Dims :
                      result.out[dim] =
                          metricsBefore[dim]
                            + SprawlOn(TotalOf(allocations), tokenMechanics, dim)

\* a funded card outside the catalog sits beside a funded catalog card
C14_Witness ==
    /\ AllocationCalled
    /\ RetiredCard \in DOMAIN allocations
    /\ allocations[RetiredCard] >= 1
    /\ ~InCatalog(RetiredCard)
    /\ \E i \in 1..Len(Cards) :
          Cards[i].id \in DOMAIN allocations /\ allocations[Cards[i].id] >= 1

-----------------------------------------------------------------------------
(* Properties of the engine as a whole (PuritySpec) *)

-----------------------------------------------------------------------------
(* Properties of the difficulty resolution (DifficultySpec) *)

ConfigResolved == result.fn = "getConfigForDifficulty"

\* C17: for every base config and each of the three difficulties the disaster
\* list of getConfigForDifficulty(base, d) starts with all base disasters in
\* their original order; for easy and normal it is exactly the base list, for
\* hard it is the base list followed by the two additional rules of the hard
\* preset, supply_chain_disruption and then energy_crisis.
C17_DisastersAppended ==
    ConfigResolved =>
        LET out == result.out.disasters
        IN  /\ Len(out) >= Len(disasters)
            /\ SubSeq(out, 1, Len(disasters)) = disasters
            /\ result.difficulty \in {"easy", "normal"} => out = disasters
            /\ result.difficulty = "hard" =>
                  /\ Len(out) = Len(disasters) + 2
                  /\ out[Len(disasters) + 1].id = "supply_chain_disruption"
                  /\ out[Len(disasters) + 2].id = "energy_crisis"
                  /\ out = disasters \o DIFFICULTY_PRESETS["hard"].additionalDisasters

\* hard was resolved against a base list of two rules, one of which has the id
\* of an additional rule
C17_Witness ==
    /\ ConfigResolved
    /\ result.difficulty = "hard"
    /\ Len(disasters) = 2
    /\ \E i \in 1..Len(disasters) : disasters[i].id = "supply_chain_disruption"
    /\ Len(result.out.disasters) = 4

ListedPresets ==
    [easy   |-> [tokens |-> <<12, 7, 7>>, diminishing |-> 4, sprawl |-> 14,
                 scale |-> (75 * Unit) \div 100],
     normal |-> [tokens |-> <<10, 5, 5>>, diminishing |-> 3, sprawl |-> 12,
                 scale |-> Unit],
     hard   |-> [tokens |-> <<8, 4, 4>>, diminishing |-> 2, sprawl |-> 10,
                 scale |-> (125 * Unit) \div 100]]

\* C19: each difficulty resolves to its own fixed preset, whatever the base
\* config's own tokenMechanics: easy gives tokens [12,7,7], diminishing threshold
\* 4, sprawl threshold 14, penalty scale 0.75; normal [10,5,5], 3, 12, 1; hard
\* [8,4,4], 2, 10, 1.25; and the tokenMechanics of getConfigForDifficulty, the
\* result of getTokensPerRound and that of getDisasterPenaltyScale are the ones
\* of the same preset.
C19_FixedPresets ==
    /\ ConfigResolved =>
          /\ result.out.tokenMechanics.diminishingReturnsThreshold
                 = ListedPresets[result.difficulty].diminishing
          /\ result.out.tokenMechanics.iotSprawlThreshold
                 = ListedPresets[result.difficulty].sprawl
          /\ result.out.tokenMechanics = DIFFICULTY_PRESETS[result.difficulty].tokenMechanics
          /\ getTokensPerRound(result.difficulty) = ListedPresets[result.difficulty].tokens
          /\ getDisasterPenaltyScale(result.difficulty)
                 = ListedPresets[result.difficulty].scale
    /\ result.fn = "getTokensPerRound" =>
          /\ result.out = ListedPresets[result.difficulty].tokens
          /\ result.out = DIFFICULTY_PRESETS[result.difficulty].tokensPerRound
    /\ result.fn = "getDisasterPenaltyScale" =>
          /\ result.out = ListedPresets[result.difficulty].scale
          /\ result.out = DIFFICULTY_PRESETS[result.difficulty].disasterPenaltyScale

\* easy was resolved against a base config that carries the mechanics of hard
C19_Witness ==
    /\ ConfigResolved
    /\ result.difficulty = "easy"
    /\ tokenMechanics = DIFFICULTY_PRESETS["hard"].tokenMechanics
    /\ result.out.tokenMechanics.iotSprawlThreshold = 14

-----------------------------------------------------------------------------
(* Properties of the clamp (ClampSpec) *)

ClampCalled == result.fn = "clampMetrics"

InRange(v) == 0 <= v /\ v <= 100 * Unit

\* C20: clampMetrics is idempotent and range-restoring: every dimension of
\* clampMetrics(m) lies in [0,100]; clamping the result again returns it as it
\* is; a record already in range, the exact values 0 and 100 included, comes
\* back unchanged; and each dimension is clamped on its own: a dimension in
\* range keeps its value whatever the others hold, and no dimension of the
\* result changes when another dimension of the input does.
C20_ClampIdempotentInRange ==
    ClampCalled =>
        /\ DOMAIN result.out = Dims
        /\ \A dim \in Dims : InRange(result.out[dim])
        /\ clampMetrics(result.out) = result.out
        /\ (\A dim \in Dims : InRange(metricsBefore[dim])) => result.out = metricsBefore
        /\ \A dim \in Dims :
              /\ InRange(metricsBefore[dim]) => result.out[dim] = metricsBefore[dim]
              /\ metricsBefore[dim] < 0 => result.out[dim] = 0
              /\ metricsBefore[dim] > 100 * Unit => result.out[dim] = 100 * Unit
              /\ \A other \in Dims \ {dim} : \A v \in ClampValues :
                    clampMetrics([metricsBefore EXCEPT ![other] = v])[dim] = result.out[dim]

\* a record was clamped that has a dimension below 0, one above 100, one at
\* exactly 0, one at exactly 100 and one inside the range
C20_Witness ==
    /\ ClampCalled
    /\ \E below, above, floor, ceiling, inside \in Dims :
          /\ metricsBefore[below] < 0
          /\ metricsBefore[above] > 100 * Unit
          /\ metricsBefore[floor] = 0
          /\ metricsBefore[ceiling] = 100 * Unit
          /\ metricsBefore[inside] = 50 * Unit
          /\ result.out[below] = 0
          /\ result.out[above] = 100 * Unit
    /\ result.out # metricsBefore

-----------------------------------------------------------------------------
(* Properties of the round orchestrator: triggers and the range (Spec) *)

\* C23 (as the specification states it): through calculateRoundEffects every
\* disaster trigger is compared against a value inside [0,100], so a rule whose
\* threshold is greater than 100 is never among the triggeredDisasters, also
\* when another rule of the same round fires before it and raises its trigger
\* metric.
C23_ThresholdAbove100NeverFires ==
    RoundCalled =>
        \A j \in 1..Len(result.out.triggeredDisasters) :
            result.out.triggeredDisasters[j].threshold <= 100

-----------------------------------------------------------------------------
(* Properties of the game session (SessionSpec, BudgetSpec) *)

\* the sum of all allocations of the state
TokensUsed == SumTokens(gameState.allocations, DOMAIN gameState.allocations)

\* C24 (as the specification states it): after any sequence of allocateTokens,
\* runPlan, nextRound, resetRound, reset and setDifficulty from a fresh state,
\* the sum of all allocations never exceeds tokensAvailable.
C24_AllocationsWithinBudget == TokensUsed <= gameState.tokensAvailable

\* the history entry of a round in a state of the session (the round has one)
EntryOf(state, round) == state.roundHistory[RoundIndex(state.roundHistory, round)]

HasEntry(state, round) == RoundIndex(state.roundHistory, round) > 0

\* the events of a history entry, none when the field is undefined
EventsOf(entry) == IF "events" \in DOMAIN entry THEN entry.events ELSE <<>>

\* runPlan on a state of the session, with the props and memoised values of the
\* provider
RunPlanOn(state) == runPlan(state, Cards, SessionConfig, synergies, SessionPenaltyScale)

\* the state as it was before the round was ever run: no entry of the current
\* round, and the metrics of the round's start
BeforeFirstRun(state) ==
    [state EXCEPT
        !.roundHistory = SelectSeq(state.roundHistory,
                                   LAMBDA e : e.round # state.currentRound),
        !.metrics = IF HasEntry(state, state.currentRound - 1)
                      THEN EntryOf(state, state.currentRound - 1).metricsAfter
                      ELSE INITIAL_METRICS]

\* C21: runPlan never double-counts.  It computes from INITIAL_METRICS in round
\* 1 and from the metricsAfter stored in the history entry of the previous round
\* in rounds 2 and 3, never from the metrics the state holds; so a second run
\* with the same allocations leaves the metrics and the round's entry as the
\* first run left them, and a run after the allocations were changed gives the
\* metrics and the entry of a first run with the new allocations.
C21_RunPlanNoDoubleCount ==
    [][(result'.fn = "runPlan" /\ RunPlan) =>
        LET round == gameState.currentRound
            entry == EntryOf(gameState', round)
            again == RunPlanOn(gameState')
            first == RunPlanOn(BeforeFirstRun(gameState))
        IN  /\ HasEntry(gameState', round)
            /\ round = 1 => entry.metricsBefore = INITIAL_METRICS
            /\ (round > 1 /\ HasEntry(gameState, round - 1)) =>
                  entry.metricsBefore = EntryOf(gameState, round - 1).metricsAfter
            /\ entry.allocations = gameState.allocations
            /\ gameState'.metrics = entry.metricsAfter
            /\ gameState'.metrics =
                  calculateRoundEffects(entry.metricsBefore, gameState.allocations, Cards,
                                        SessionConfig, synergies, round,
                                        SessionPenaltyScale).metricsAfter
            /\ again.metrics = gameState'.metrics
            /\ again.roundHistory = gameState'.roundHistory
            /\ first.metrics = gameState'.metrics
            /\ EntryOf(first, round) = entry
    ]_vars

\* round 2 was run again after its allocations were changed: its entry starts
\* from the metrics stored for round 1, which are not the initial ones, and a
\* disaster of the earlier run of round 2 is not among the entry's events
C21_Witness ==
    /\ result.fn = "runPlan"
    /\ gameState.currentRound = 2
    /\ HasEntry(gameState, 1)
    /\ HasEntry(gameState, 2)
    /\ EntryOf(gameState, 2).metricsBefore = EntryOf(gameState, 1).metricsAfter
    /\ EntryOf(gameState, 1).metricsAfter # INITIAL_METRICS
    /\ gameState.metrics = EntryOf(gameState, 2).metricsAfter
    /\ gameState.metrics # EntryOf(gameState, 2).metricsBefore
    /\ \E k \in 1..Len(gameState.disasterEvents) :
          /\ gameState.disasterEvents[k].round = 2
          /\ \A j \in 1..Len(EventsOf(EntryOf(gameState, 2))) :
                EventsOf(EntryOf(gameState, 2))[j].id # gameState.disasterEvents[k].id

C25_AllocationsInRange ==
    \A cardId \in DOMAIN gameState.allocations :
        gameState.allocations[cardId] \in 0..MAX_TOKENS_PER_CARD

\* allocateTokens has just stored the maximum for one card, and the other card
\* holds an allocation of none
C25_Witness ==
    /\ result.fn = "allocateTokens"
    /\ \E c, d \in DOMAIN gameState.allocations :
          /\ gameState.allocations[c] = MAX_TOKENS_PER_CARD
          /\ gameState.allocations[d] = 0

\* two allocation maps give every card the same tokens (a card without an entry
\* has none)
SameTokens(a, b) ==
    \A cardId \in DOMAIN a \cup DOMAIN b : Tokens(a, cardId) = Tokens(b, cardId)

\* C26 (as the specification states it): resetRound in a round r above 1
\* restores the allocations the round started with, floor(tokens / 2) of the
\* allocations recorded for round r - 1, whether or not runPlan was already
\* executed in round r; in round 1 it clears all allocations; in both cases
\* currentRound, tokensAvailable, metrics and roundHistory stay as they were.
C26_ResetRoundRestoresRoundStart ==
    [][(result'.fn = "resetRound" /\ ResetRound) =>
        LET round == gameState.currentRound
        IN  /\ round = 1 => SameTokens(gameState'.allocations, NoAllocations)
            /\ (round > 1 /\ HasEntry(gameState, round - 1)) =>
                  SameTokens(gameState'.allocations,
                             KeptAllocations(EntryOf(gameState, round - 1).allocations))
            /\ gameState'.currentRound = gameState.currentRound
            /\ gameState'.tokensAvailable = gameState.tokensAvailable
            /\ gameState'.metrics = gameState.metrics
            /\ gameState'.roundHistory = gameState.roundHistory
    ]_vars

\* C27 (as the specification states it): after any sequence of operations every
\* entry of disasterEvents is a disaster recorded in the events of the
\* roundHistory entry of its round, and no pair of id and round occurs twice in
\* disasterEvents; so a disaster that no longer fires when its round is run
\* again is no longer reported.
C27_DisasterEventsMatchHistory ==
    LET reported == gameState.disasterEvents
    IN  /\ \A k \in 1..Len(reported) :
              /\ HasEntry(gameState, reported[k].round)
              /\ \E j \in 1..Len(EventsOf(EntryOf(gameState, reported[k].round))) :
                    EventsOf(EntryOf(gameState, reported[k].round))[j].id = reported[k].id
        /\ \A k, l \in 1..Len(reported) :
              (reported[k].id = reported[l].id /\ reported[k].round = reported[l].round)
                => k = l

\* every entry's round is at most currentRound and the rounds of the entries
\* increase strictly, so no round has two entries
HistoryInOrder(state) ==
    LET history == state.roundHistory
    IN  /\ \A k \in 1..Len(history) : history[k].round \in 1..state.currentRound
        /\ \A k, l \in 1..Len(history) : k < l => history[k].round < history[l].round

\* C28: after any sequence of runPlan, nextRound, resetRound, allocateTokens and
\* reset, roundHistory holds at most one entry for a round number, every
\* entry's round is at most currentRound, and the entries are in increasing
\* order of round; a run of a round that has an entry replaces that entry in
\* place and changes no other entry, and a first run adds the entry after the
\* others.
C28_HistoryOneEntryPerRound ==
    /\ [](HistoryInOrder(gameState))
    /\ [][(result'.fn = "runPlan" /\ RunPlan) =>
            LET before == gameState.roundHistory
                after == gameState'.roundHistory
                index == RoundIndex(before, gameState.currentRound)
            IN  /\ index > 0 =>
                      /\ Len(after) = Len(before)
                      /\ after[index].round = gameState.currentRound
                      /\ \A k \in 1..Len(before) : k # index => after[k] = before[k]
                /\ index = 0 =>
                      /\ Len(after) = Len(before) + 1
                      /\ after[Len(after)].round = gameState.currentRound
                      /\ \A k \in 1..Len(before) : after[k] = before[k]
       ]_vars

\* round 2 was run a second time with other allocations: the history holds the
\* entries of rounds 1 and 2, and a disaster of the earlier run of round 2 is
\* not among the events of the entry that replaced it
C28_Witness ==
    /\ result.fn = "runPlan"
    /\ gameState.currentRound = 2
    /\ Len(gameState.roundHistory) = 2
    /\ gameState.roundHistory[1].round = 1
    /\ gameState.roundHistory[2].round = 2
    /\ gameState.roundHistory[2].allocations = gameState.allocations
    /\ EventsOf(gameState.roundHistory[2]) = <<>>
    /\ \E k \in 1..Len(gameState.disasterEvents) : gameState.disasterEvents[k].round = 2

C30_PreviousRoundRecorded ==
    [][(result'.fn = "runPlan" /\ RunPlan /\ gameState.currentRound > 1) =>
        /\ HasEntry(gameState, gameState.currentRound - 1)
        /\ EntryOf(gameState', gameState.currentRound).metricsBefore =
              EntryOf(gameState, gameState.currentRound - 1).metricsAfter
    ]_vars

====
